---- MODULE Spec2Model ----
(***************************************************************************)
(* Model of src/api_server.py: TurnstileAPIServer, the admission-gated     *)
(* scheduler of captcha jobs over a pool of (page, context) pairs.         *)
(*                                                                         *)
(* The server runs on one asyncio event loop, so every stretch of code     *)
(* between two suspension points (await of a browser call, of a sleep, or  *)
(* of a get() on the empty page_pool) is one atomic action here.           *)
(* asyncio.Queue() is unbounded: put() never suspends.  Consecutive awaits *)
(* that touch no server state between them (route/goto/eval_on_selector;   *)
(* input_value/click/sleep of one attempt; new_context/new_page) are one   *)
(* action with the outcome of the group as its input.                      *)
(*                                                                         *)
(* A job record is a Python dict and is modelled as a TLA+ record with the *)
(* same keys, so that a comparison of two dicts compares the key sets too. *)
(* The key "elapsed_time" (a rounded duration, only reported) is left out. *)
(***************************************************************************)
EXTENDS Integers, Sequences, FiniteSets, TLC

\* ---------------------------------------------------------------- bounds
\* Number of job ids (uuid4 values) the model hands out.
MaxTasks == 2
\* Largest pool capacity thread_count * page_count the model is built with.
MaxCapacity == 2
\* Hours of wall-clock time covered after startup.
Horizon == 1
\* Passes of _periodic_cleanup followed when the clock is moved by its sleep.
MaxPasses == 2
\* time.time() at startup, in seconds since the epoch.
EpochStart == 5000

\* ------------------------------------------------------- program constants
PENDING_TIMEOUT == 300
RETENTION == 3600
CLEANUP_SLEEP == 3600
INTERVAL_MINUTES == 60
ATTEMPTS == 30

\* The id "" of a /result request, and the name under which the
\* _periodic_cleanup task waits in the queue's getters.
EmptyId == 0
SweepTask == -1

TaskIds == 1..MaxTasks
Tokens == {"tok"}
Params == {"", "x"}
NoItem == <<>>

\* Constructor arguments (thread, page_count) the model is built with.
Configs == {c \in (1..MaxCapacity) \X (1..MaxCapacity) : c[1] * c[2] <= MaxCapacity}

\* The instants at which the clock is observed: startup, the last instant
\* at which a record created at startup is not yet timed out, the first at
\* which it is, and every hour boundary after startup.
Instants ==
    {EpochStart, EpochStart + PENDING_TIMEOUT, EpochStart + PENDING_TIMEOUT + 1}
        \cup {EpochStart + h * CLEANUP_SLEEP : h \in 1..Horizon}

VARIABLES
    phase,              \* "constructed" | "running"
    thread_count,       \* self.thread_count
    page_count,         \* self.page_count
    now,                \* time.time()
    current_task_num,   \* self.current_task_num
    results,            \* self.results: dict task_id -> record
    page_pool,          \* self.page_pool: the queue's items, FIFO
    getters,            \* the queue's waiting getters, FIFO
    next_id,            \* the next uuid4
    pc,                 \* position of each _solve_turnstile task
    attempt,            \* its loop variable
    held,               \* its (page, context)
    dead,               \* pages in use whose context was closed under them
    next_page,          \* name of the next page created
    next_ctx,           \* name of the next context created
    sw_pc,              \* position of the _periodic_cleanup task
    sw_i,               \* its loop variable
    sw_held,            \* its (page, context)
    success,            \* its success counter
    sw_wake,            \* when its sleep ends
    sw_base,            \* history: the next page name when its pass began
    exp_wake,           \* when the sleep of _cleanup_results ends
    ahead,              \* the tasks whose next step is due before a woken getter runs
    created_at,         \* history: when each job was admitted
    raised,             \* history: an attempt of the task's running loop raised
    served              \* history: how many terminal answers /result gave, per id

vars == <<phase, thread_count, page_count, now, current_task_num, results,
          page_pool, getters, next_id, pc, attempt, held, dead, next_page, next_ctx, sw_pc, sw_i, sw_held, success,
          sw_wake, sw_base, exp_wake, ahead, created_at, raised, served>>

confVars == <<thread_count, page_count>>
solveVars == <<pc, attempt, held, raised>>
browserVars == <<dead, next_page, next_ctx>>
sweepVars == <<sw_pc, sw_i, sw_held, success, sw_wake, sw_base>>
queueVars == <<page_pool, getters>>

\* ------------------------------------------------------------- dict helpers
\* dict.get(key, default)
Get(d, key, default) == IF key \in DOMAIN d THEN d[key] ELSE default

\* d[key] = value
Store(d, key, value) ==
    [k \in DOMAIN d \cup {key} |-> IF k = key THEN value ELSE d[k]]

\* d.pop(key, None)
Pop(d, key) == [k \in DOMAIN d \ {key} |-> d[k]]

\* The history created_at keeps the admission time of a job for as long as
\* its record is stored or its task has not ended.
Forget(ca, res, pcs) ==
    [t \in TaskIds |->
        IF t \notin DOMAIN res /\ pcs[t] = "done" THEN 0 ELSE ca[t]]

\* ------------------------------------------------------------ the records
PendingRecord(t) ==
    [status |-> "process", message |-> "solving captcha", start_time |-> t]

SuccessRecord(v) == [status |-> "success", value |-> v]

FailRecord == [status |-> "error", value |-> "captcha_fail"]

TimeoutRecord ==
    [status |-> "error", value |-> "timeout", message |-> "Task timeout"]

\* self.max_task_num
max_task_num == thread_count * page_count

\* A page is unusable once its context was closed.
PageDead(item) == item[1] \in dead

\* ---------------------------------------------------------------- startup
\* (mutant) a startup that builds one pair more than max_task_num.
InitialPoolOneMore(tc, pgs) ==
    [k \in 1..(tc * pgs + 1) |-> <<k, ((k - 1) \div pgs) + 1>>]

\* The pool _initialize_browser builds: thread_count contexts with
\* page_count pages each, put in creation order.
InitialPool(tc, pgs) ==
    [k \in 1..(tc * pgs) |-> <<k, ((k - 1) \div pgs) + 1>>]

Init ==
    /\ phase = "constructed"
    /\ \E c \in Configs : thread_count = c[1] /\ page_count = c[2]
    /\ now = EpochStart
    /\ current_task_num = 0
    /\ results = <<>>
    /\ page_pool = <<>>
    /\ getters = <<>>
    /\ next_id = 1
    /\ pc = [t \in TaskIds |-> "none"]
    /\ attempt = [t \in TaskIds |-> 0]
    /\ held = [t \in TaskIds |-> NoItem]
    /\ dead = {}
    /\ next_page = 1
    /\ next_ctx = 1
    /\ sw_pc = "none"
    /\ sw_i = 0
    /\ sw_held = NoItem
    /\ success = 0
    /\ sw_wake = 0
    /\ sw_base = 0
    /\ exp_wake = 0
    /\ ahead = {}
    /\ created_at = [t \in TaskIds |-> 0]
    /\ raised = [t \in TaskIds |-> FALSE]
    /\ served = [t \in TaskIds |-> 0]

Startup ==
    /\ phase = "constructed"
    /\ phase' = "running"
    /\ page_pool' = InitialPool(thread_count, page_count)
    /\ next_page' = thread_count * page_count + 1
    /\ next_ctx' = thread_count + 1
    /\ sw_pc' = "sleep"
    /\ sw_wake' = now + INTERVAL_MINUTES * 60
    /\ exp_wake' = now + CLEANUP_SLEEP
    /\ UNCHANGED <<confVars, now, current_task_num, results, getters, next_id,
                   solveVars, dead, sw_i, sw_held, success, sw_base, created_at,
                   served>>
    /\ UNCHANGED ahead

\* The clock moves on to the next instant.
Tick ==
    /\ phase = "running"
    /\ \E t \in Instants :
          /\ t > now
          /\ \A u \in Instants : u > now => t <= u
          /\ now' = t
    /\ UNCHANGED <<phase, confVars, current_task_num, results, queueVars,
                   next_id, solveVars, browserVars, sweepVars, exp_wake,
                   created_at, served>>
    /\ UNCHANGED ahead

\* The clock moves on to the instant at which the sleep of _periodic_cleanup
\* ends.
Wake ==
    /\ phase = "running"
    /\ sw_pc = "sleep"
    /\ now < sw_wake
    /\ sw_wake <= EpochStart + MaxPasses * INTERVAL_MINUTES * 60
    /\ now' = sw_wake
    /\ UNCHANGED <<phase, confVars, current_task_num, results, queueVars,
                   next_id, solveVars, browserVars, sweepVars, exp_wake,
                   created_at, served>>
    /\ UNCHANGED ahead

\* ------------------------------------------------------------- the queue
\* The getters put_nowait() wakes: the one waiting longest, if any.
Woken == IF getters = <<>> THEN {} ELSE {Head(getters)}

\* The event loop runs its callbacks in the order in which they became
\* ready.  put_nowait() makes the getter it wakes ready at once, so before
\* that getter runs only the steps that were ready at the put can run, one
\* for each task: `ahead` holds the tasks that may still run such a step.
\* A task created, or a sleep begun, after the put runs after the getter.
AnyWoken == sw_pc = "woken" \/ \E t \in TaskIds : pc[t] = "woken"

Runnable ==
    {t \in TaskIds : pc[t] \in {"start", "setup", "loop"}}
        \cup (IF sw_pc \in {"sleep", "close", "create", "pause"}
              THEN {SweepTask} ELSE {})

MayRun(x) ==
    \/ ~AnyWoken
    \/ x \in ahead
    \/ IF x = SweepTask THEN sw_pc = "woken" ELSE pc[x] = "woken"

\* Task x has run a step.
Ran(x) ==
    ahead' = IF ~AnyWoken' THEN {}
             ELSE IF ~AnyWoken THEN Runnable' \ {x}
             ELSE ahead \ {x}

\* (mutant) get_nowait() that returns the first item and leaves it queued.
TakenKept(pool) == pool

\* The items left after get_nowait() took one.
Taken(pool) == Tail(pool)

\* (mutant) a put that wakes the first getter and queues the item twice.
PutItemTwice(item) ==
    /\ page_pool' = Append(Append(page_pool, item), item)
    /\ getters' = IF getters = <<>> THEN <<>> ELSE Tail(getters)

\* page_pool.put(item): append the item, wake the first getter.
PutItem(item) ==
    /\ page_pool' = Append(page_pool, item)
    /\ getters' = IF getters = <<>> THEN <<>> ELSE Tail(getters)

\* ------------------------------------------------------------ /turnstile
\* (mutant) a capacity check that lets one more job in.
AtCapacityStrict(n, cap) == n > cap

\* The capacity check of process_turnstile.
AtCapacity(n, cap) == n >= cap

\* (mutant) an admission that leaves the increment undone.
AdmittedUncounted(n) == n

\* The counter after an admission.
Admitted(n) == n + 1

\* (mutant) a handler that stores the record and counts the job before it
\* looks at the capacity.
ProcessOutcomeLate(url, sitekey) ==
    IF url = "" \/ sitekey = ""
    THEN [code |-> 400, results |-> results,
          current_task_num |-> current_task_num, task_id |-> EmptyId]
    ELSE [code |-> IF AtCapacity(current_task_num, max_task_num) THEN 429 ELSE 202,
          results |-> Store(results, next_id, PendingRecord(now)),
          current_task_num |-> Admitted(current_task_num), task_id |-> EmptyId]

\* What process_turnstile answers and leaves behind: the status code, the
\* store, the counter and the id of the task it created (EmptyId: none).
ProcessOutcome(url, sitekey) ==
    IF url = "" \/ sitekey = ""
    THEN [code |-> 400, results |-> results,
          current_task_num |-> current_task_num, task_id |-> EmptyId]
    ELSE IF AtCapacity(current_task_num, max_task_num)
    THEN [code |-> 429, results |-> results,
          current_task_num |-> current_task_num, task_id |-> EmptyId]
    ELSE [code |-> 202, results |-> Store(results, next_id, PendingRecord(now)),
          current_task_num |-> Admitted(current_task_num), task_id |-> next_id]

ProcessTurnstile(url, sitekey) ==
    LET o == ProcessOutcome(url, sitekey) IN
    /\ phase = "running"
    /\ o.code = 202 => next_id <= MaxTasks
    /\ results' = o.results
    /\ current_task_num' = o.current_task_num
    /\ IF o.task_id = EmptyId
       THEN UNCHANGED <<pc, next_id, created_at>>
       ELSE /\ pc' = [pc EXCEPT ![o.task_id] = "start"]
            /\ created_at' = [created_at EXCEPT ![o.task_id] = now]
            /\ next_id' = next_id + 1
    /\ UNCHANGED <<phase, confVars, now, queueVars, attempt, held, raised,
                   browserVars, sweepVars, exp_wake, served>>
    /\ UNCHANGED ahead

\* --------------------------------------------------------------- /result
\* (mutant) a pending-timeout test that fires at the limit already.
TimedOutAtLimit(result, t) ==
    t - Get(result, "start_time", t) >= PENDING_TIMEOUT

\* The pending-timeout test of get_result.
TimedOut(result, t) == t - Get(result, "start_time", t) > PENDING_TIMEOUT

\* The status code get_result gives a record it consumed.
StatusCode(result) ==
    IF Get(result, "status", "") = "success" THEN 200
    ELSE IF Get(result, "value", "") = "timeout" THEN 408
    ELSE IF Get(result, "value", "") = "captcha_fail" THEN 422
    ELSE 500

\* The record get_result goes on with when it does not answer 202.
Escalated(result) ==
    IF Get(result, "status", "") = "process" THEN TimeoutRecord ELSE result

\* (mutant) a read that stores the record it answers with and leaves it.
ConsumedLeft(res, task_id) == Store(res, task_id, Escalated(res[task_id]))

\* The store after get_result consumed the record of task_id.
Consumed(res, task_id) == Pop(res, task_id)

\* What get_result answers and leaves behind: the status code, the content
\* and the store.
GetOutcome(task_id) ==
    IF task_id = EmptyId
    THEN [code |-> 400, body |-> [status |-> "error"], results |-> results]
    ELSE IF task_id \notin DOMAIN results
    THEN [code |-> 404, body |-> [status |-> "error"], results |-> results]
    ELSE LET result == results[task_id] IN
         IF Get(result, "status", "") = "process" /\ ~TimedOut(result, now)
         THEN [code |-> 202, body |-> result, results |-> results]
         ELSE [code |-> StatusCode(Escalated(result)),
               body |-> Escalated(result),
               results |-> Consumed(results, task_id)]

Terminal == {200, 408, 422, 500}

GetResult(task_id) ==
    LET o == GetOutcome(task_id) IN
    /\ phase = "running"
    /\ results' = o.results
    /\ served' = IF o.code \in Terminal
                 THEN [served EXCEPT ![task_id] = @ + 1]
                 ELSE served
    /\ created_at' = Forget(created_at, o.results, pc)
    /\ UNCHANGED <<phase, confVars, now, current_task_num, queueVars, next_id,
                   solveVars, browserVars, sweepVars, exp_wake>>
    /\ UNCHANGED ahead

\* ------------------------------------------------------ _solve_turnstile
\* page_pool.get() of task t: take the first item, or wait among the getters.
SolveAcquire(t) ==
    /\ pc[t] \in {"start", "woken"}
    /\ MayRun(t)
    /\ IF page_pool = <<>>
       THEN /\ getters' = Append(getters, t)
            /\ pc' = [pc EXCEPT ![t] = "waiting"]
            /\ UNCHANGED <<page_pool, held>>
       ELSE /\ held' = [held EXCEPT ![t] = Head(page_pool)]
            /\ page_pool' = Taken(page_pool)
            /\ pc' = [pc EXCEPT ![t] = "setup"]
            /\ UNCHANGED getters
    /\ UNCHANGED <<phase, confVars, now, current_task_num, results, next_id,
                   attempt, raised, browserVars, sweepVars, exp_wake, created_at,
                   served>>
    /\ Ran(t)

\* (mutants) a finally block that leaves the counter, and one that is run
\* after an except block that decremented it already.
ReleasedNot(n) == n
ReleasedTwice(n) == n - 2

\* The counter after the finally block.
Released(n) == n - 1

\* The finally block of task t: decrement the counter, put the pair back.
Finally(t) ==
    /\ current_task_num' = Released(current_task_num)
    /\ PutItem(held[t])
    /\ held' = [held EXCEPT ![t] = NoItem]
    /\ raised' = [raised EXCEPT ![t] = FALSE]
    /\ pc' = [x \in TaskIds |->
                IF x = t THEN "done" ELSE IF x \in Woken THEN "woken" ELSE pc[x]]
    /\ sw_pc' = IF SweepTask \in Woken THEN "woken" ELSE sw_pc
    /\ created_at' = Forget(created_at, results', pc')

\* The test after the loop: is the record still the pending one?
StillProcess(res, t) ==
    /\ t \in DOMAIN res
    /\ res[t] = [status |-> "process", message |-> "solving captcha"]

\* (mutant) statements after the loop that write the failure whatever the
\* record is.
AfterLoopAlways(res, t) == Store(res, t, FailRecord)

\* The store after the statements that follow the loop.
AfterLoop(res, t) ==
    IF StillProcess(res, t) THEN Store(res, t, FailRecord) ELSE res

\* route, goto and eval_on_selector: all return, or one raises.
SolveSetup(t, ok) ==
    /\ pc[t] = "setup"
    /\ MayRun(t)
    /\ ok => ~PageDead(held[t])
    /\ IF ok
       THEN /\ pc' = [pc EXCEPT ![t] = "loop"]
            /\ attempt' = [attempt EXCEPT ![t] = 0]
            /\ UNCHANGED <<current_task_num, results, queueVars, held, raised,
                           sw_pc, created_at>>
       ELSE /\ results' = Store(results, t, FailRecord)
            /\ Finally(t)
            /\ UNCHANGED attempt
    /\ UNCHANGED <<phase, confVars, now, next_id, browserVars, sw_i, sw_held,
                   success, sw_wake, sw_base,
                   exp_wake, served>>
    /\ Ran(t)

\* One attempt of the loop: input_value raises, returns "" or returns a token.
\* attempt[t] is the loop variable: the number of attempts that read nothing.
SolveAttempt(t, outcome) ==
    /\ pc[t] = "loop"
    /\ MayRun(t)
    /\ attempt[t] < ATTEMPTS
    /\ PageDead(held[t]) => outcome = "raise"
    /\ IF outcome \in Tokens
       THEN /\ results' = AfterLoop(Store(results, t, SuccessRecord(outcome)), t)
            /\ Finally(t)
            /\ UNCHANGED attempt
       ELSE /\ attempt' = [attempt EXCEPT ![t] = attempt[t] + 1]
            /\ raised' = [raised EXCEPT ![t] = raised[t] \/ outcome = "raise"]
            /\ UNCHANGED <<current_task_num, results, queueVars, pc, held, sw_pc,
                           created_at>>
    /\ UNCHANGED <<phase, confVars, now, next_id, browserVars, sw_i, sw_held,
                   success, sw_wake, sw_base,
                   exp_wake, served>>
    /\ Ran(t)

\* The loop ran out of attempts.
SolveExhausted(t) ==
    /\ pc[t] = "loop"
    /\ MayRun(t)
    /\ attempt[t] = ATTEMPTS
    /\ results' = AfterLoop(results, t)
    /\ Finally(t)
    /\ UNCHANGED <<phase, confVars, now, next_id, attempt, browserVars, sw_i,
                   sw_held, success, sw_wake, sw_base,
                   exp_wake, served>>
    /\ Ran(t)

\* The loop as a whole: some attempt reads a token, or all of them read
\* nothing.  The attempts that read nothing change no state of the server.
SolveLoop(t, outcome) ==
    /\ pc[t] = "loop"
    /\ MayRun(t)
    /\ attempt[t] = 0
    /\ PageDead(held[t]) => outcome = "exhausted"
    /\ results' = AfterLoop(IF outcome \in Tokens
                            THEN Store(results, t, SuccessRecord(outcome))
                            ELSE results, t)
    /\ Finally(t)
    /\ UNCHANGED <<phase, confVars, now, next_id, attempt, browserVars, sw_i,
                   sw_held, success, sw_wake, sw_base,
                   exp_wake, served>>
    /\ Ran(t)

\* ----------------------------------------------------- _cleanup_results
\* (mutant) an expiry test that does not look at the status.
ExpiredAnyStatus(res, t) ==
    {tid \in DOMAIN res : t - Get(res[tid], "start_time", 0) > RETENTION}

\* The ids the sweep finds expired at time t.
Expired(res, t) ==
    {tid \in DOMAIN res :
        /\ Get(res[tid], "status", "") = "error"
        /\ t - Get(res[tid], "start_time", 0) > RETENTION}

ExpirySweep ==
    /\ phase = "running"
    /\ now >= exp_wake
    /\ results' = [k \in DOMAIN results \ Expired(results, now) |-> results[k]]
    /\ exp_wake' = now + CLEANUP_SLEEP
    /\ created_at' = Forget(created_at, results', pc)
    /\ UNCHANGED <<phase, confVars, now, current_task_num, queueVars, next_id,
                   solveVars, browserVars, sweepVars, served>>
    /\ UNCHANGED ahead

\* ---------------------------------------------------- _periodic_cleanup
\* The sweep reaches the top of iteration i with the queue as given: the
\* pass is over, or it takes the first item, or it waits among the getters.
SweepAdvance(i, pool, gts, succ) ==
    /\ sw_i' = i
    /\ success' = succ
    /\ IF i = max_task_num
       THEN /\ sw_pc' = "sleep"
            /\ sw_wake' = now + INTERVAL_MINUTES * 60
            /\ sw_held' = NoItem
            /\ page_pool' = pool
            /\ getters' = gts
       ELSE IF pool = <<>>
       THEN /\ sw_pc' = "waiting"
            /\ getters' = Append(gts, SweepTask)
            /\ sw_held' = NoItem
            /\ page_pool' = pool
            /\ UNCHANGED sw_wake
       ELSE /\ sw_pc' = "close"
            /\ sw_held' = Head(pool)
            /\ page_pool' = Taken(pool)
            /\ getters' = gts
            /\ UNCHANGED sw_wake

\* The sleep of the interval is over: a pass begins.
SweepBegin ==
    /\ sw_pc = "sleep"
    /\ MayRun(SweepTask)
    /\ now >= sw_wake
    /\ SweepAdvance(0, page_pool, getters, 0)
    /\ sw_base' = next_page
    /\ UNCHANGED <<phase, confVars, now, current_task_num, results, next_id,
                   solveVars, browserVars, exp_wake, created_at, served>>
    /\ Ran(SweepTask)

\* Woken in page_pool.get(): look at the queue again.
SweepResume ==
    /\ sw_pc = "woken"
    /\ MayRun(SweepTask)
    /\ SweepAdvance(sw_i, page_pool, getters, success)
    /\ UNCHANGED <<phase, confVars, now, current_task_num, results, next_id,
                   solveVars, browserVars, sw_base, exp_wake, created_at,
                   served>>
    /\ Ran(SweepTask)

\* The pairs some task or the queue holds, the sweep's own aside.
InUse == {page_pool[k] : k \in DOMAIN page_pool}
             \cup {held[t] : t \in {x \in TaskIds : held[x] /= NoItem}}

\* What context.close() closes besides the context: every page made in it.
ClosedByContext(ctx) == {item[1] : item \in {x \in InUse : x[2] = ctx}}

\* page.close() and context.close(): each returns or raises, and what it
\* raises is swallowed.  The pair the sweep holds is garbage from here on.
SweepClose(ctx_ok) ==
    /\ sw_pc = "close"
    /\ MayRun(SweepTask)
    /\ dead' = (IF ctx_ok THEN dead \cup ClosedByContext(sw_held[2]) ELSE dead)
                   \ {sw_held[1]}
    /\ sw_pc' = "create"
    /\ UNCHANGED <<phase, confVars, now, current_task_num, results, queueVars,
                   next_id, solveVars, next_page, next_ctx, sw_i, sw_held,
                   success, sw_wake, sw_base, exp_wake, created_at,
                   served>>
    /\ Ran(SweepTask)

\* _create_context_with_proxy() and new_page(): both return and the new pair
\* is put, or one raises and the iteration is abandoned.
SweepCreate(ok) ==
    /\ sw_pc = "create"
    /\ MayRun(SweepTask)
    /\ IF ok
       THEN /\ PutItem(<<next_page, next_ctx>>)
            /\ pc' = [x \in TaskIds |-> IF x \in Woken THEN "woken" ELSE pc[x]]
            /\ next_page' = next_page + 1
            /\ next_ctx' = next_ctx + 1
            /\ success' = success + 1
            /\ sw_pc' = "pause"
            /\ sw_held' = NoItem
            /\ UNCHANGED <<sw_i, sw_wake>>
       ELSE /\ SweepAdvance(sw_i + 1, page_pool, getters, success)
            /\ UNCHANGED <<pc, next_page, next_ctx>>
    /\ UNCHANGED <<phase, confVars, now, current_task_num, results, next_id,
                   attempt, held, raised, dead, sw_base, exp_wake, created_at,
                   served>>
    /\ Ran(SweepTask)

\* The sleep of 1.5 s is over: the next iteration.
SweepPause ==
    /\ sw_pc = "pause"
    /\ MayRun(SweepTask)
    /\ SweepAdvance(sw_i + 1, page_pool, getters, success)
    /\ UNCHANGED <<phase, confVars, now, current_task_num, results, next_id,
                   solveVars, browserVars, sw_base, exp_wake, created_at,
                   served>>
    /\ Ran(SweepTask)

\* ------------------------------------------------------- specifications
Environment ==
    \/ Startup
    \/ Tick
    \/ \E url \in Params, sitekey \in Params : ProcessTurnstile(url, sitekey)
    \/ \E task_id \in TaskIds \cup {EmptyId} : GetResult(task_id)
    \/ \E t \in TaskIds : SolveAcquire(t)
    \/ \E t \in TaskIds, ok \in BOOLEAN : SolveSetup(t, ok)
    \/ ExpirySweep
    \/ SweepBegin
    \/ SweepResume
    \/ \E ctx_ok \in BOOLEAN : SweepClose(ctx_ok)
    \/ \E ok \in BOOLEAN : SweepCreate(ok)
    \/ SweepPause

\* The server with each job's loop taken as a whole.
Next ==
    \/ Environment
    \/ \E t \in TaskIds, outcome \in Tokens \cup {"exhausted"} : SolveLoop(t, outcome)

Spec == Init /\ [][Next]_vars

\* One job followed attempt by attempt, the pool left to it alone.
AttemptNext ==
    \/ Startup
    \/ Tick
    \/ \E url \in Params, sitekey \in Params :
          next_id = 1 /\ ProcessTurnstile(url, sitekey)
    \/ \E task_id \in TaskIds \cup {EmptyId} : GetResult(task_id)
    \/ \E t \in TaskIds : SolveAcquire(t)
    \/ \E t \in TaskIds, ok \in BOOLEAN : SolveSetup(t, ok)
    \/ \E t \in TaskIds, outcome \in Tokens \cup {"", "raise"} : SolveAttempt(t, outcome)
    \/ \E t \in TaskIds : SolveExhausted(t)
    \/ ExpirySweep

AttemptSpec == Init /\ [][AttemptNext]_vars

\* The server followed from one pass of _periodic_cleanup to the next, with
\* clients that submit jobs and do not read them.
PassNext ==
    \/ Startup
    \/ Wake
    \/ \E url \in Params, sitekey \in Params : ProcessTurnstile(url, sitekey)
    \/ \E t \in TaskIds : SolveAcquire(t)
    \/ \E t \in TaskIds, ok \in BOOLEAN : SolveSetup(t, ok)
    \/ \E t \in TaskIds, outcome \in Tokens \cup {"exhausted"} : SolveLoop(t, outcome)
    \/ ExpirySweep
    \/ SweepBegin
    \/ SweepResume
    \/ \E ctx_ok \in BOOLEAN : SweepClose(ctx_ok)
    \/ \E ok \in BOOLEAN : SweepCreate(ok)
    \/ SweepPause

\* The scheduling of the event loop: a task created by create_task that can
\* run a step (it is new or woken, or the browser call it awaits has
\* returned or raised) runs it.  Requests of clients and the passing of time
\* are not forced.
RoutineStep(t) ==
    \/ SolveAcquire(t)
    \/ \E ok \in BOOLEAN : SolveSetup(t, ok)
    \/ \E outcome \in Tokens \cup {"exhausted"} : SolveLoop(t, outcome)

SweepStep ==
    \/ SweepBegin
    \/ SweepResume
    \/ \E ctx_ok \in BOOLEAN : SweepClose(ctx_ok)
    \/ \E ok \in BOOLEAN : SweepCreate(ok)
    \/ SweepPause

Fairness ==
    /\ \A t \in TaskIds : WF_vars(RoutineStep(t))
    /\ WF_vars(SweepStep)

FairSpec == Init /\ [][Next]_vars /\ Fairness

PassSpec == Init /\ [][PassNext]_vars /\ Fairness

\* ================================================================ claims
IsPending(rec) == Get(rec, "status", "") = "process"
IsTerminal(rec) == Get(rec, "status", "") \in {"success", "error"}

\* The pairs checked out of the queue, with their holders.
HeldBySolvers == {t \in TaskIds : held[t] /= NoItem}

\* C1: a Solve Routine that ran all 30 attempts without reading a value has
\* written Error("captcha_fail") when it finishes: a /result read made after
\* that and within the pending timeout answers 422 with value
\* "captcha_fail", not a pending 202.
C1_ExhaustedYields422 ==
    \A t \in TaskIds :
        ( /\ pc[t] = "done"
          /\ attempt[t] = ATTEMPTS
          /\ served[t] = 0
          /\ now - created_at[t] <= PENDING_TIMEOUT )
        => /\ t \in DOMAIN results
           /\ Get(results[t], "status", "") = "error"
           /\ Get(results[t], "value", "") = "captcha_fail"
           /\ GetOutcome(t).code = 422
           /\ Get(GetOutcome(t).body, "value", "") = "captcha_fail"

\* C2: the record of a job leaves the Pending state at most once: whenever
\* a terminal record is written for an id, or a /result read escalates the
\* id to a timeout, the record of that id was in the store and Pending
\* right before, and no terminal answer had been given for the id.
TerminalWrite(t) ==
    /\ t \in DOMAIN results'
    /\ IsTerminal(results'[t])
    /\ (t \notin DOMAIN results \/ results[t] /= results'[t])

C2_LeavesPendingOnce ==
    [][\A t \in TaskIds :
          TerminalWrite(t) =>
              /\ t \in DOMAIN results
              /\ IsPending(results[t])
              /\ served[t] = 0]_vars

\* C3: for every id at most one /result read answers 200, 408 or 422, and
\* every read after that one answers 404.
C3_ReadOnce ==
    \A t \in TaskIds :
        /\ served[t] <= 1
        /\ served[t] >= 1 => GetOutcome(t).code = 404

\* C4: every Session Resource is in the pool or held by exactly one task:
\* no page occurs twice among the items of the queue, the pairs held by the
\* Solve Routines and the pair held by the Recycling Sweep, and a page
\* leaves them only as the pair the sweep has destroyed and drops.
Occurrences(page) ==
    Cardinality({k \in DOMAIN page_pool : page_pool[k][1] = page})
        + Cardinality({t \in HeldBySolvers : held[t][1] = page})
        + (IF sw_held /= NoItem /\ sw_held[1] = page THEN 1 ELSE 0)

C4_Once == \A page \in 1..(next_page - 1) : Occurrences(page) <= 1

C4_Kept ==
    \A page \in 1..(next_page - 1) :
        (Occurrences(page) = 1 /\ Occurrences(page)' = 0)
            => (sw_pc = "create" /\ sw_held[1] = page)

C4_ExclusiveOwnership == []C4_Once /\ [][C4_Kept]_vars

\* A Solve Routine and the sweep each hold a pair while another is queued.
C4_Witness ==
    /\ HeldBySolvers /= {}
    /\ sw_held /= NoItem
    /\ \E t \in TaskIds : pc[t] = "done"

\* C5: a /turnstile request with valid parameters is answered 429 exactly
\* when the counter is >= thread_count * page_count at the check; otherwise
\* it is answered 202, a Pending record is created for a new id and the
\* counter grows by exactly one.
C5_Answer ==
    LET o == ProcessOutcome("x", "x") IN
    /\ o.code = 429 <=> current_task_num >= thread_count * page_count
    /\ o.code /= 429 =>
          /\ o.code = 202
          /\ o.task_id \notin DOMAIN results
          /\ DOMAIN o.results = DOMAIN results \cup {o.task_id}
          /\ IsPending(o.results[o.task_id])
          /\ \A k \in DOMAIN results : o.results[k] = results[k]
          /\ o.current_task_num = current_task_num + 1

C5_Step ==
    next_id' /= next_id =>
        /\ current_task_num < thread_count * page_count
        /\ current_task_num' = current_task_num + 1
        /\ next_id' = next_id + 1
        /\ DOMAIN results' = DOMAIN results \cup {next_id}
        /\ IsPending(results'[next_id])
        /\ pc[next_id] = "none" /\ pc'[next_id] = "start"

C5_AdmissionGate == [](phase = "running" => C5_Answer) /\ [][C5_Step]_vars

\* The server is full after admissions, and was not before the last one.
C5_Witness ==
    /\ phase = "running"
    /\ next_id > 1
    /\ ProcessOutcome("x", "x").code = 429
    /\ \E t \in TaskIds : pc[t] = "done"

\* C6: in every reachable state 0 <= counter <= thread_count * page_count.
C6_CounterBounds ==
    /\ current_task_num >= 0
    /\ current_task_num <= thread_count * page_count

\* The counter is at the cap while a further id could still be admitted.
C6_Witness ==
    /\ current_task_num = thread_count * page_count
    /\ next_id <= MaxTasks
    /\ \E t \in TaskIds : pc[t] \in {"start", "waiting", "setup", "loop"}

\* C7: the counter changes only by an admission (+1) and by the end of a
\* Solve Routine (-1, once, in the step in which the routine ends), whatever
\* the outcome; /result reads, timeout escalations and the sweeps leave it.
Ending == {t \in TaskIds : pc[t] /= "done" /\ pc'[t] = "done"}

C7_CounterSteps ==
    [][current_task_num' =
          current_task_num + (next_id' - next_id) - Cardinality(Ending)]_vars

\* One routine ended by an exception, one by a success, and the counter is
\* back at zero.
C7_Witness ==
    /\ current_task_num = 0
    /\ \E t1, t2 \in TaskIds :
          /\ pc[t1] = "done" /\ pc[t2] = "done"
          /\ t1 \in DOMAIN results /\ results[t1] = FailRecord
          /\ t2 \in DOMAIN results /\ IsTerminal(results[t2])
          /\ Get(results[t2], "status", "") = "success"

\* C8: after startup and after every pass of the Recycling Sweep, the pairs
\* in the pool plus those checked out to Solve Routines are exactly
\* thread_count * page_count.
C8_PoolSizeKept ==
    (phase = "running" /\ sw_pc = "sleep") =>
        Len(page_pool) + Cardinality(HeldBySolvers) = thread_count * page_count

\* C9: when the sweep destroys the page and the context of the pair it
\* checked out, no other pair, queued or held by a Solve Routine, is
\* destroyed or invalidated.
C9_CloseContained ==
    \A item \in InUse : ~PageDead(item)

\* C10: every record the Expiry Sweep removes has status Error and was
\* created more than 3600 s before; an Error record of a job admitted less
\* than 3600 s before the sweep stays in the store.
C10_ExpiryByAge ==
    [][exp_wake' /= exp_wake =>
          \A t \in DOMAIN results :
              /\ t \notin DOMAIN results' =>
                    /\ Get(results[t], "status", "") = "error"
                    /\ now - created_at[t] > RETENTION
              /\ ( /\ Get(results[t], "status", "") = "error"
                   /\ now - created_at[t] < RETENTION )
                 => t \in DOMAIN results']_vars

\* C11: the Expiry Sweep never removes a record whose status is Success or
\* Pending, whatever its age: no such record is expired at the current time
\* or at any later one, a pass of the sweep leaves each of them as it is,
\* and such a record leaves the store only in a /result read that answers
\* it terminally.
C11_Kept ==
    \A t \in DOMAIN results :
        Get(results[t], "status", "") \in {"success", "process"} =>
            /\ exp_wake' /= exp_wake =>
                  (t \in DOMAIN results' /\ results'[t] = results[t])
            /\ t \notin DOMAIN results' =>
                  /\ served'[t] = served[t] + 1
                  /\ GetOutcome(t).code \in Terminal
                  /\ results' = GetOutcome(t).results

C11_NeverExpired ==
    \A t \in DOMAIN results :
        Get(results[t], "status", "") \in {"success", "process"} =>
            \A later \in {0, 1, RETENTION + 1, 2 * RETENTION + 1} :
                t \notin Expired(results, now + later)

C11_ExpiryKeepsLive == []C11_NeverExpired /\ [][C11_Kept]_vars

\* A pass of the Expiry Sweep has run over a Success record and a Pending
\* record that are as old as the retention window.
C11_Witness ==
    /\ exp_wake > EpochStart + CLEANUP_SLEEP
    /\ \E t1, t2 \in DOMAIN results :
          /\ Get(results[t1], "status", "") = "success"
          /\ Get(results[t2], "status", "") = "process"
          /\ now - created_at[t1] >= RETENTION
          /\ now - created_at[t2] >= RETENTION

\* C12: a /result read of a record that is Pending and was created more
\* than 300 s before answers 408 with the Error record of value "timeout"
\* and removes the record in the same step, leaving the other records, the
\* counter and the pool; the rewritten record is never in the store in a
\* state another task runs in.
C12_Answer ==
    \A t \in DOMAIN results :
        (IsPending(results[t]) /\ now - created_at[t] > PENDING_TIMEOUT) =>
            LET o == GetOutcome(t) IN
            /\ o.code = 408
            /\ Get(o.body, "status", "") = "error"
            /\ Get(o.body, "value", "") = "timeout"
            /\ DOMAIN o.results = DOMAIN results \ {t}
            /\ \A k \in DOMAIN o.results : o.results[k] = results[k]

C12_NoIntermediate ==
    \A t \in DOMAIN results : Get(results[t], "value", "") /= "timeout"

C12_Step ==
    \A t \in DOMAIN results :
        (IsPending(results[t]) /\ served'[t] /= served[t]) =>
            /\ now - created_at[t] > PENDING_TIMEOUT
            /\ results' = GetOutcome(t).results
            /\ t \notin DOMAIN results'
            /\ UNCHANGED <<current_task_num, queueVars, solveVars>>

C12_TimeoutRead ==
    /\ [](phase = "running" => (C12_Answer /\ C12_NoIntermediate))
    /\ [][C12_Step]_vars

\* A terminal answer was given for a job whose routine has not ended: the
\* read found the record Pending and timed out, and the record is gone.
C12_Witness ==
    \E t \in TaskIds :
        /\ served[t] = 1
        /\ pc[t] \in {"start", "waiting", "setup", "loop"}
        /\ t \notin DOMAIN results
        /\ now - created_at[t] > PENDING_TIMEOUT

\* C13: a Solve Routine in which an exception was raised after it acquired
\* its pair (by route, goto or eval_on_selector, or by an attempt of the
\* loop) ends normally with the Error record of value "captcha_fail"
\* written for its id, and its steps leave the record of every other job.
C13_ExceptionsCaught ==
    [][\A t \in Ending :
          (raised[t] \/ pc[t] = "setup") =>
              /\ t \in DOMAIN results'
              /\ results'[t] = FailRecord
              /\ \A u \in TaskIds \ {t} :
                    /\ u \in DOMAIN results <=> u \in DOMAIN results'
                    /\ u \in DOMAIN results => results'[u] = results[u]]_vars

\* C14: a Solve Routine holds a pair exactly from its get() to its end; the
\* pair it holds is the one get() took from the head of the queue and does
\* not change while it is held; the step in which the routine ends, whatever
\* the outcome, appends exactly that pair to the queue once, and a routine
\* that has ended puts nothing more.  No pair is duplicated or dropped
\* between the get() and the put().
C14_Holding ==
    \A t \in TaskIds : held[t] /= NoItem <=> pc[t] \in {"setup", "loop"}

C14_Step ==
    \A t \in TaskIds :
        /\ t \in Ending =>
              /\ held[t] /= NoItem
              /\ page_pool' = Append(page_pool, held[t])
              /\ held'[t] = NoItem
              /\ \A page \in 1..(next_page - 1) :
                    page = held[t][1] =>
                        (Occurrences(page) = 1 /\ Occurrences(page)' = 1)
        /\ (held[t] /= NoItem /\ t \notin Ending) => held'[t] = held[t]
        /\ (held[t] = NoItem /\ held'[t] /= NoItem) =>
              /\ page_pool /= <<>>
              /\ held'[t] = Head(page_pool)
              /\ page_pool' = Tail(page_pool)
        /\ pc[t] = "done" => pc'[t] = "done"

C14_PutBackOnce == []C14_Holding /\ [][C14_Step]_vars

\* One routine ended by an exception and one by running out of attempts;
\* every pair built at startup is back in the queue, in another order.
C14_Witness ==
    /\ \E t1, t2 \in TaskIds :
          /\ pc[t1] = "done" /\ pc[t2] = "done"
          /\ t1 \in DOMAIN results /\ results[t1] = FailRecord
          /\ t2 \in DOMAIN results /\ IsPending(results[t2])
    /\ next_page = thread_count * page_count + 1
    /\ Len(page_pool) = thread_count * page_count
    /\ page_pool /= InitialPool(thread_count, page_count)

\* C15: under the scheduling of the event loop, every admitted job's Solve
\* Routine eventually holds a pair and eventually ends, and a server that is
\* at its capacity eventually is below it again, so that a valid request is
\* admitted; also while and after the Recycling Sweep runs a pass, one in
\* which the creation of a replacement failed included.  In particular a
\* routine that has yet to get a pair is never left with no pair in the
\* queue or in the hands of a task that will put one.
C15_PairLeft ==
    (\E t \in TaskIds : pc[t] \in {"start", "waiting", "woken"}) =>
        \/ page_pool /= <<>>
        \/ HeldBySolvers /= {}
        \/ sw_held /= NoItem

C15_Progress ==
    /\ []C15_PairLeft
    /\ \A t \in TaskIds : (pc[t] = "start") ~> (held[t] /= NoItem)
    /\ \A t \in TaskIds : (pc[t] = "start") ~> (pc[t] = "done")
    /\ (phase = "running" /\ current_task_num >= max_task_num)
           ~> (ProcessOutcome("x", "x").code = 202)

\* C16: when a pass of the Recycling Sweep completes, none of the pairs
\* that existed when the pass began is queued or held any more, and
\* thread_count * page_count pairs created during the pass are, whatever
\* the Solve Routines did during the pass.
PassCompletes == sw_pc \in {"create", "pause"} /\ sw_pc' = "sleep"

C16_AllReplaced ==
    [][PassCompletes =>
          /\ \A page \in 1..(sw_base - 1) : Occurrences(page)' = 0
          /\ Cardinality({page \in sw_base..(next_page' - 1) :
                              Occurrences(page)' = 1})
                 = thread_count * page_count]_vars

\* C17: a close or a creation that raises does not end the pass of the
\* Recycling Sweep: after a creation that raised the sweep is at the next
\* iteration, and every pass, the first and the later ones, completes under
\* the scheduling of the event loop.  In particular the sweep never waits
\* for a pair when none is queued or held by a routine that will put it.
InPass == sw_pc \in {"waiting", "woken", "close", "create", "pause"}

C17_GoesOn ==
    (sw_pc = "create" /\ sw_pc' \notin {"create", "pause"}) =>
        /\ sw_i' = sw_i + 1
        /\ sw_pc' = (IF sw_i' = max_task_num THEN "sleep"
                     ELSE IF page_pool = <<>> THEN "waiting" ELSE "close")

C17_PairLeft ==
    sw_pc = "waiting" => (page_pool /= <<>> \/ HeldBySolvers /= {})

C17_PassCompletes ==
    /\ [][C17_GoesOn]_vars
    /\ []C17_PairLeft
    /\ InPass ~> (sw_pc = "sleep")

\* C18: a /turnstile request that is answered 400 (empty url or sitekey) or
\* 429 (counter at the capacity) creates no record and no task and leaves
\* the counter, the store and the queue as they are: the request has no
\* step that changes the state of the server; a record is created and a
\* Solve Routine scheduled only by a request that is answered 202.
Rejected(url, sitekey) == ProcessOutcome(url, sitekey).code \in {400, 429}

C18_NoEffect ==
    \A url \in Params, sitekey \in Params :
        Rejected(url, sitekey) =>
            /\ ProcessOutcome(url, sitekey).results = results
            /\ ProcessOutcome(url, sitekey).current_task_num = current_task_num
            /\ ProcessOutcome(url, sitekey).task_id = EmptyId
            /\ ~ENABLED (ProcessTurnstile(url, sitekey) /\ vars' /= vars)

C18_Created ==
    \A t \in TaskIds :
        \/ pc[t] = "none" /\ pc'[t] /= "none"
        \/ t \notin DOMAIN results /\ t \in DOMAIN results' /\ IsPending(results'[t])
        => /\ ~Rejected("x", "x")
           /\ t = next_id
           /\ current_task_num' = current_task_num + 1

C18_RejectionInert == []C18_NoEffect /\ [][C18_Created]_vars

\* The server answers 429 although an id and a queued pair are left, and
\* 400 to a request without url: both requests can be made.
C18_Witness ==
    /\ ProcessOutcome("x", "x").code = 429
    /\ ProcessOutcome("", "x").code = 400
    /\ next_id <= MaxTasks
    /\ page_pool /= <<>>
    /\ ENABLED ProcessTurnstile("x", "x")
    /\ ENABLED ProcessTurnstile("", "x")

\* C19: the pairs checked out of the queue at the same time, by the Solve
\* Routines and by the Recycling Sweep, are never more than
\* thread_count * page_count, and no more than that together with the
\* pairs queued.
CheckedOut ==
    Cardinality(HeldBySolvers) + (IF sw_held = NoItem THEN 0 ELSE 1)

C19_CheckedOutBounded ==
    /\ CheckedOut <= thread_count * page_count
    /\ Len(page_pool) + CheckedOut <= thread_count * page_count

\* Every pair is checked out: one by the sweep, the others by routines.
C19_Witness ==
    /\ CheckedOut = thread_count * page_count
    /\ thread_count * page_count > 1
    /\ sw_held /= NoItem

\* C20: a /result read of a record that is Pending and was created at most
\* 300 s before answers 202 with the record as it is stored, and has no
\* step that changes the state of the server: the record, the store, the
\* counter and the queue stay as they are, so the same read can be made
\* again, any number of times, with the same answer.
C20_PendingRead ==
    \A t \in DOMAIN results :
        (IsPending(results[t]) /\ now - created_at[t] <= PENDING_TIMEOUT) =>
            /\ GetOutcome(t).code = 202
            /\ GetOutcome(t).body = results[t]
            /\ GetOutcome(t).results = results
            /\ ENABLED GetResult(t)
            /\ ~ENABLED (GetResult(t) /\ vars' /= vars)

\* A Pending record is read at the very limit of 300 s, with a routine at
\* work on it.
C20_Witness ==
    \E t \in DOMAIN results :
        /\ IsPending(results[t])
        /\ now - created_at[t] = PENDING_TIMEOUT
        /\ pc[t] = "loop"
        /\ ENABLED GetResult(t)

\* C21: when an attempt of the loop (the 1st to the 30th) reads a value v
\* that is not empty, the routine stores the Success record with value v
\* for its id and ends in that step, with no further attempt; nothing but
\* the /result read that answers it changes or removes a Success record,
\* and that read answers 200 with value v.
ReadsToken(t) == pc[t] = "loop" /\ attempt[t] < ATTEMPTS /\ t \in Ending

C21_Step ==
    \A t \in TaskIds :
        /\ ReadsToken(t) =>
              /\ t \in DOMAIN results'
              /\ \E v \in Tokens : results'[t] = SuccessRecord(v)
              /\ attempt'[t] = attempt[t]
        /\ pc[t] = "done" => (pc'[t] = "done" /\ attempt'[t] = attempt[t])
        /\ (t \in DOMAIN results /\ Get(results[t], "status", "") = "success") =>
              /\ t \in DOMAIN results' => results'[t] = results[t]
              /\ t \notin DOMAIN results' => served'[t] = served[t] + 1

C21_Read ==
    \A t \in DOMAIN results :
        Get(results[t], "status", "") = "success" =>
            /\ pc[t] = "done"
            /\ GetOutcome(t).code = 200
            /\ GetOutcome(t).body = results[t]
            /\ Get(GetOutcome(t).body, "value", "") \in Tokens

C21_SuccessKept == []C21_Read /\ [][C21_Step]_vars

\* The 30th attempt read the value, after 29 that read nothing, and the
\* Success record is stored.
C21_Witness ==
    \E t \in DOMAIN results :
        /\ pc[t] = "done"
        /\ attempt[t] = ATTEMPTS - 1
        /\ Get(results[t], "status", "") = "success"

\* C22: the tasks blocked in page_pool.get() are served in the order in
\* which they began to wait: a task that calls get() while others are
\* blocked, waiting or woken and not yet run, does not get a pair ahead of
\* them, and a task that put_nowait() woke gets a pair when it runs.
Blocked ==
    {t \in TaskIds : pc[t] \in {"waiting", "woken"}}
        \cup (IF sw_pc \in {"waiting", "woken"} THEN {SweepTask} ELSE {})

Takes(t) ==
    IF t = SweepTask
    THEN sw_held' /= NoItem /\ sw_held' /= sw_held
    ELSE held[t] = NoItem /\ held'[t] /= NoItem

C22_Step ==
    /\ \A t \in TaskIds \cup {SweepTask} :
          (Takes(t) /\ t \notin Blocked) => Blocked = {}
    /\ \A t \in TaskIds : pc[t] = "woken" => pc'[t] \in {"woken", "setup"}
    /\ sw_pc = "woken" => sw_pc' \in {"woken", "close"}

C22_FifoService == [][C22_Step]_vars

\* C23: in every state the counter is the number of Solve Routines that
\* were scheduled and have not ended: those yet to call get(), those
\* blocked in it and those holding a pair.  No routine runs its first step,
\* let alone its decrement, in a state in which its admission is not counted.
Live == {t \in TaskIds : pc[t] \in {"start", "waiting", "woken", "setup", "loop"}}

C23_CounterIsLive ==
    /\ current_task_num = Cardinality(Live)
    /\ \A t \in TaskIds : (pc[t] = "none") <=> (t >= next_id)

\* The counter is 2 with one routine blocked in get() and one holding a pair.
C23_Witness ==
    /\ current_task_num = 2
    /\ \E t1, t2 \in TaskIds :
          pc[t1] = "waiting" /\ pc[t2] \in {"setup", "loop"}

\* C24: the Recycling Sweep holds at most one pair at a time and has put
\* the replacement of every pair it took before it takes the next one, so
\* that while a pass runs at least thread_count * page_count - 1 pairs are
\* queued or held by Solve Routines.
C24_OneAtATime ==
    InPass =>
        /\ sw_held /= NoItem => success = sw_i
        /\ Len(page_pool) + Cardinality(HeldBySolvers)
               >= thread_count * page_count - 1
====
